---- MODULE Spec2Model ----
(***************************************************************************)
(* Model of the chat server (Express + Socket.IO + Mongoose).              *)
(*                                                                         *)
(* State: the two Mongo collections the handlers touch (Room, Message),    *)
(* the Socket.IO side of every connection (connected or not, socket.user,  *)
(* whether the handlers are registered yet, the adapter's room membership) *)
(* and the async handler invocations in flight.  Every `await` of a        *)
(* handler is a step boundary: the database operation it awaits takes      *)
(* effect atomically in one step, and the code after it runs in a later    *)
(* step, so handlers interleave exactly where Node lets them.              *)
(*                                                                         *)
(* `trace` is the history of what the server saw and did: inbound events   *)
(* ("in"), emissions with the set of sockets they were written to ("out"), *)
(* handler completions ("end") and rejections nobody catches ("throw").    *)
(* Socket.IO writes to one socket in order, so what a connection observes  *)
(* is the subsequence of "out" entries that name it.                       *)
(*                                                                         *)
(* Strings that the code trims or tests for emptiness are sequences of     *)
(* one-character strings, so that trim() is computed and not assumed.      *)
(***************************************************************************)
EXTENDS Naturals, Integers, Sequences, FiniteSets, TLC

\* ------------------------------------------------------------------ bounds

\* Number of client inputs (connections, disconnections, socket events, HTTP
\* requests) per behaviour: of the specification with every handler and
\* every kind of input, and of the specifications of one part of the server.
MaxEvents == 2
MaxFocus == 3

\* ------------------------------------------------------------- the values

\* A payload the client did not send (JavaScript undefined).  It is a
\* one-element sequence whose element is no character, so it differs from
\* every string.
Undef == <<"#undefined">>

\* Mongoose's null (findById / findOne with no match); socket.user before it
\* is assigned.
Null == [null |-> TRUE]

Str_x     == <<"x">>
Str_sp_x  == <<" ", "x">>
Str_blank == <<" ">>
Str_empty == <<>>
Str_y     == <<"y">>
Str_hi    == <<"h", "i">>
Str_lobby == <<"l", "o", "b", "b", "y">>
Str_general == <<"g", "e", "n", "e", "r", "a", "l">>

\* The users of the identity store (User collection): _id -> document.
UserIds == {"u_alice", "u_bob"}
UserDoc(uid) ==
    IF uid = "u_alice" THEN [username |-> "alice", avatar |-> "a.png"]
                       ELSE [username |-> "bob",   avatar |-> "b.png"]

\* User.findById
UserFindById(uid) == IF uid \in UserIds THEN UserDoc(uid) ELSE Null

\* No passport user in the session.
NoUid == "none"

\* The room Socket.IO puts every socket in when it connects, named by the
\* socket's id: no string a client sends as a room name.
SocketId(c) == <<c>>

\* A slip: the session is not checked.
Authenticated_Unchecked(uid) == TRUE

\* The check of io.on('connection'): if (!uid) disconnect.
Authenticated(uid) == uid # NoUid

\* The connections a behaviour may open, and the passport user id their
\* session cookie resolves to.
\* c4 is a second connection of alice (another tab or device).
Conns == {"c1", "c2", "c3", "c4"}
SessionUid(c) ==
    CASE c = "c1" -> "u_alice"
      [] c = "c2" -> "u_bob"
      [] c = "c4" -> "u_alice"
      [] OTHER    -> NoUid

\* A string that does not cast to an ObjectId, and an ObjectId of no document.
BadId == 0
UnknownId == 9

\* ------------------------------------------------------- pure functions

IsWhite(ch) == ch = " "

RECURSIVE TrimStart(_)
TrimStart(s) ==
    IF s = <<>> THEN <<>>
    ELSE IF IsWhite(Head(s)) THEN TrimStart(Tail(s)) ELSE s

RECURSIVE TrimEnd(_)
TrimEnd(s) ==
    IF s = <<>> THEN <<>>
    ELSE IF IsWhite(s[Len(s)]) THEN TrimEnd(SubSeq(s, 1, Len(s) - 1)) ELSE s

\* A slip: the text is tested as it comes.
Trim_Not(s) == s

\* String.prototype.trim
Trim(s) == TrimEnd(TrimStart(s))

\* JavaScript truthiness of a string-or-undefined value.
Truthy(v) == v # Undef /\ v # <<>>

\* UTF-16 code units of the characters the model uses (string comparison).
Code(ch) ==
    CASE ch = " " -> 32
      [] ch = "a" -> 97
      [] ch = "b" -> 98
      [] ch = "e" -> 101
      [] ch = "g" -> 103
      [] ch = "h" -> 104
      [] ch = "i" -> 105
      [] ch = "l" -> 108
      [] ch = "n" -> 110
      [] ch = "o" -> 111
      [] ch = "r" -> 114
      [] ch = "x" -> 120
      [] ch = "y" -> 121
      [] OTHER    -> 0

\* a < b in the order sort('name') uses.
RECURSIVE StrLess(_, _)
StrLess(a, b) ==
    IF b = <<>> THEN FALSE
    ELSE IF a = <<>> THEN TRUE
    ELSE IF Code(Head(a)) # Code(Head(b)) THEN Code(Head(a)) < Code(Head(b))
    ELSE StrLess(Tail(a), Tail(b))

\* ---------------------------------------------------------------- state

VARIABLES
    rooms,      \* Room collection: set of [id, name, createdBy]
    messages,   \* Message collection: _id -> [id, room, user, avatar, text, seenBy]
    nextId,     \* the next fresh ObjectId
    status,     \* per connection: "idle", "connected", "closed"
    user,       \* per connection: socket.user (Null until assigned)
    registered, \* per connection: the socket.on(...) handlers are in place
    joined,     \* per connection: the rooms the adapter has it in
    tasks,      \* handler invocations in flight: id -> [conn, kind, pc, arg, loc]
    nIn,        \* number of inputs received so far
    limit,      \* number of inputs the behaviour may receive (never changes)
    trace       \* history of inputs, emissions, completions and rejections

vars == <<rooms, messages, nextId, status, user, registered, joined, tasks, nIn, limit, trace>>

db   == <<rooms, messages, nextId>>
sock == <<status, user, registered, joined, limit>>

\* ------------------------------------------------------------ the trace

EvIn(t, c, ev, arg)      == [k |-> "in",    task |-> t, conn |-> c, ev |-> ev, arg |-> arg, to |-> {}]
EvOut(t, c, ev, arg, to) == [k |-> "out",   task |-> t, conn |-> c, ev |-> ev, arg |-> arg, to |-> to]
EvEnd(t, c, ev)          == [k |-> "end",   task |-> t, conn |-> c, ev |-> ev, arg |-> Null, to |-> {}]
\* A rejected promise of an async handler: nothing awaits or catches it.
\* The invocation ends there; the server is taken to run on (what Node does
\* with an unhandled rejection is a matter of its version and flags).
EvThrow(t, c, ev, err)   == [k |-> "throw", task |-> t, conn |-> c, ev |-> ev, arg |-> err, to |-> {}]

\* ------------------------------------------------------- the collections

\* Room.exists({ name })
RoomExists(name) == \E r \in rooms : r.name = name

\* Room.findOne({ name })
RoomFindOne(name) ==
    IF RoomExists(name) THEN CHOOSE r \in rooms : r.name = name ELSE Null

RECURSIVE SortByName(_)
SortByName(rs) ==
    IF rs = {} THEN <<>>
    ELSE LET m == CHOOSE r \in rs : \A q \in rs : q = r \/ StrLess(r.name, q.name)
         IN  <<m>> \o SortByName(rs \ {m})

\* Room.find().sort('name')
RoomFindSorted == SortByName(rooms)

\* A slip: the schema without `unique: true`.
UniqueNameFree_NoIndex(name) == TRUE

\* The unique index on Room.name: an insert of a name already present fails
\* with a duplicate-key error.
UniqueNameFree(name) == ~RoomExists(name)

\* Message.findById(id)
MessageFindById(id) == IF id \in DOMAIN messages THEN messages[id] ELSE Null

RECURSIVE SortById(_)
SortById(ids) ==
    IF ids = {} THEN <<>>
    ELSE LET m == CHOOSE i \in ids : \A j \in ids : i <= j
         IN  <<messages[m]>> \o SortById(ids \ {m})

\* Message.find({ room }).sort('time'): ObjectIds are handed out in creation
\* order, which is the order of the default `time`.
MessageFindByRoom(room) == SortById({i \in DOMAIN messages : messages[i].room = room})

\* The function f without the key d, and with the key d set to v.
Without(f, d) == [x \in DOMAIN f \ {d} |-> f[x]]
With(f, d, v) == [x \in DOMAIN f \cup {d} |-> IF x = d THEN v ELSE f[x]]

\* ------------------------------------------------------------ Socket.IO

Connected(c) == status[c] = "connected"

\* io.emit: every connected socket of the namespace.
AllSockets == {c \in Conns : Connected(c)}

\* A slip: a socket is never taken out of a room it was put in.
InRoom_Stale(room) ==
    {c \in Conns : \E i \in DOMAIN trace : /\ trace[i].k = "in" /\ trace[i].ev = "joinRoom"
                                            /\ trace[i].conn = c /\ trace[i].arg = room}

\* A slip: io.emit where io.to(room).emit is meant.
InRoom_Everyone(room) == {c \in Conns : Connected(c)}

\* io.to(room): the sockets the adapter has in `room`.
InRoom(room) == {c \in Conns : Connected(c) /\ room \in joined[c]}

\* A slip: io.to(room) where socket.to(room) is meant.
InRoomExcept_IoTo(room, c) == InRoom(room)

\* socket.to(room): the room without the sending socket.
InRoomExcept(room, c) == InRoom(room) \ {c}

\* socket.emit: the socket itself, while it is connected.
Self(c) == IF Connected(c) THEN {c} ELSE {}

\* Whom the handler of socket c sends the room list after a change: io.emit.
RoomListTargets(c) == AllSockets

\* A slip: socket.leaveAll() without socket.join(room).
LeaveAllThenJoin_NoJoin(c, room) == [joined EXCEPT ![c] = {}]

\* A slip: socket.join(room) without socket.leaveAll().
LeaveAllThenJoin_NoLeave(c, room) == [joined EXCEPT ![c] = @ \cup {room}]

\* socket.leaveAll(); socket.join(room)
LeaveAllThenJoin(c, room) == [joined EXCEPT ![c] = {room}]

\* ------------------------------------------------------------- the tasks

Task(c, kind, pc, arg, loc) == [conn |-> c, kind |-> kind, pc |-> pc, arg |-> arg, loc |-> loc]

\* The id of the invocation an input starts: the place of its "in" entry.
NewTask == Len(trace) + 1

Start(t, rec) == With(tasks, t, rec)

At(t, kind, pc) == t \in DOMAIN tasks /\ tasks[t].kind = kind /\ tasks[t].pc = pc

Goto(t, pc, loc) == [tasks EXCEPT ![t].pc = pc, ![t].loc = loc]

\* The handlers are registered on a socket that is still connected: the
\* client can send it an event.
CanSend(c) == Connected(c) /\ registered[c] /\ nIn < limit

Username(c) == user[c].username

\* ------------------------------------------ io.on('connection') (129-142)

\* A client connects: Socket.IO adds the socket to the namespace and to the
\* room of its own id, then runs the 'connection' handler.  Without a
\* passport user in the session the socket is disconnected at once (which
\* takes it out of every room) and no handler is registered.  Otherwise the
\* socket stays in the namespace while User.findById is awaited.
Connect(c) ==
    /\ status[c] = "idle"
    /\ nIn < limit
    /\ LET t == NewTask
           uid == SessionUid(c)
       IN  IF ~Authenticated(uid)
           THEN /\ status' = [status EXCEPT ![c] = "closed"]
                /\ trace' = trace \o <<EvIn(t, c, "connection", Null), EvEnd(t, c, "connection")>>
                /\ UNCHANGED <<tasks, joined>>
           ELSE /\ status' = [status EXCEPT ![c] = "connected"]
                /\ joined' = [joined EXCEPT ![c] = {SocketId(c)}]
                /\ tasks' = Start(t, Task(c, "connection", "findUser", uid, Null))
                /\ trace' = Append(trace, EvIn(t, c, "connection", Null))
    /\ nIn' = nIn + 1
    /\ UNCHANGED <<db, user, registered, limit>>

\* socket.user = await User.findById(uid); socket.user.username is logged,
\* which throws when no such user exists; then Room.find().sort('name') is
\* issued and takes effect.
ConnectionFindRooms(t) ==
    /\ At(t, "connection", "findUser")
    /\ LET u == UserFindById(tasks[t].arg)
       IN  /\ user' = [user EXCEPT ![tasks[t].conn] = u]
           /\ IF u = Null
              THEN /\ trace' = Append(trace, EvThrow(t, tasks[t].conn, "connection", "TypeError"))
                   /\ tasks' = Without(tasks, t)
              ELSE /\ tasks' = Goto(t, "emit", RoomFindSorted)
                   /\ UNCHANGED trace
    /\ UNCHANGED <<db, status, registered, joined, nIn, limit>>

\* socket.emit('roomList', ...), then the socket.on(...) calls.
ConnectionEmit(t) ==
    /\ At(t, "connection", "emit")
    /\ LET c == tasks[t].conn
       IN  /\ trace' = trace \o <<EvOut(t, c, "roomList", tasks[t].loc, Self(c)),
                                  EvEnd(t, c, "connection")>>
           /\ registered' = [registered EXCEPT ![c] = TRUE]
    /\ tasks' = Without(tasks, t)
    /\ UNCHANGED <<db, status, user, joined, nIn, limit>>

\* The client goes away (close, timeout, transport error): Socket.IO removes
\* the socket from the namespace and from every room.  No 'disconnect'
\* handler is registered and in-flight handlers are not cancelled.
Disconnect(c) ==
    /\ Connected(c)
    /\ nIn < limit
    /\ status' = [status EXCEPT ![c] = "closed"]
    /\ joined' = [joined EXCEPT ![c] = {}]
    /\ trace' = Append(trace, EvIn(NewTask, c, "disconnect", Null))
    /\ nIn' = nIn + 1
    /\ UNCHANGED <<db, user, registered, tasks, limit>>

\* ------------------------------------------------ app.get('/') (113-120)

\* GET / of an authenticated user (ensureAuth): Room.find().sort('name').
Index(uid) ==
    /\ nIn < limit
    /\ LET t == NewTask
           found == RoomFindSorted
       IN  /\ tasks' = Start(t, Task("http", "index",
                                     IF Len(found) = 0 THEN "create" ELSE "render", uid, found))
           /\ trace' = Append(trace, EvIn(t, "http", "index", uid))
    /\ nIn' = nIn + 1
    /\ UNCHANGED <<db, sock>>

\* rooms was empty: Room.create({ name: 'lobby', createdBy }).  The insert
\* fails on the unique index when a lobby exists by now; the rejection is not
\* caught, and the request is never answered.
IndexCreate(t) ==
    /\ At(t, "index", "create")
    /\ IF UniqueNameFree(Str_lobby)
       THEN LET lobby == [id |-> nextId, name |-> Str_lobby,
                          createdBy |-> UserDoc(tasks[t].arg).username]
            IN  /\ rooms' = rooms \cup {lobby}
                /\ nextId' = nextId + 1
                /\ tasks' = Goto(t, "render", <<lobby>>)
                /\ UNCHANGED trace
       ELSE /\ trace' = Append(trace, EvThrow(t, "http", "index", "E11000"))
            /\ tasks' = Without(tasks, t)
            /\ UNCHANGED <<rooms, nextId>>
    /\ UNCHANGED <<messages, sock, nIn>>

\* res.render('index', { user, rooms })
IndexRender(t) ==
    /\ At(t, "index", "render")
    /\ trace' = trace \o <<EvOut(t, "http", "render", tasks[t].loc, {}),
                           EvEnd(t, "http", "index")>>
    /\ tasks' = Without(tasks, t)
    /\ UNCHANGED <<db, sock, nIn>>

\* ------------------------------------------ socket.on('newRoom') (144-149)

\* name?.trim() is falsy: nothing happens.  Otherwise Room.exists({ name })
\* is awaited with the name as sent; when the room exists nothing happens.
NewRoom(c, name) ==
    /\ CanSend(c)
    /\ LET t == NewTask
       IN  IF name # Undef /\ Truthy(Trim(name)) /\ ~RoomExists(name)
           THEN /\ tasks' = Start(t, Task(c, "newRoom", "create", name, Null))
                /\ trace' = Append(trace, EvIn(t, c, "newRoom", name))
           ELSE /\ trace' = trace \o <<EvIn(t, c, "newRoom", name), EvEnd(t, c, "newRoom")>>
                /\ UNCHANGED tasks
    /\ nIn' = nIn + 1
    /\ UNCHANGED <<db, sock>>

\* await Room.create({ name, createdBy: socket.user.username })
NewRoomCreate(t) ==
    /\ At(t, "newRoom", "create")
    /\ LET c == tasks[t].conn
           name == tasks[t].arg
       IN  IF UniqueNameFree(name)
           THEN /\ rooms' = rooms \cup {[id |-> nextId, name |-> name, createdBy |-> Username(c)]}
                /\ nextId' = nextId + 1
                /\ tasks' = Goto(t, "find", Null)
                /\ UNCHANGED trace
           ELSE /\ trace' = Append(trace, EvThrow(t, c, "newRoom", "E11000"))
                /\ tasks' = Without(tasks, t)
                /\ UNCHANGED <<rooms, nextId>>
    /\ UNCHANGED <<messages, sock, nIn>>

\* await Room.find().sort('name')
NewRoomFind(t) ==
    /\ At(t, "newRoom", "find")
    /\ tasks' = Goto(t, "emit", RoomFindSorted)
    /\ UNCHANGED <<db, sock, nIn, trace>>

\* io.emit('roomList', ...)
NewRoomEmit(t) ==
    /\ At(t, "newRoom", "emit")
    /\ trace' = trace \o <<EvOut(t, tasks[t].conn, "roomList", tasks[t].loc, RoomListTargets(tasks[t].conn)),
                           EvEnd(t, tasks[t].conn, "newRoom")>>
    /\ tasks' = Without(tasks, t)
    /\ UNCHANGED <<db, sock, nIn>>

\* --------------------------------------- socket.on('deleteRoom') (151-157)

\* A slip: any user may delete a room.
MayDeleteRoom_Anyone(room, c) == room # Null

\* The creator check of deleteRoom.
MayDeleteRoom(room, c) == room # Null /\ room.createdBy = Username(c)

\* await Room.findOne({ name }); the check.
DeleteRoom(c, name) ==
    /\ CanSend(c)
    /\ LET t == NewTask
           room == RoomFindOne(name)
       IN  IF MayDeleteRoom(room, c)
           THEN /\ tasks' = Start(t, Task(c, "deleteRoom", "delete", name, room))
                /\ trace' = Append(trace, EvIn(t, c, "deleteRoom", name))
           ELSE /\ trace' = trace \o <<EvIn(t, c, "deleteRoom", name), EvEnd(t, c, "deleteRoom")>>
                /\ UNCHANGED tasks
    /\ nIn' = nIn + 1
    /\ UNCHANGED <<db, sock>>

\* await room.deleteOne(): removes the document with that _id, if it is
\* still there.  `room` stays in scope.
DeleteRoomDelete(t) ==
    /\ At(t, "deleteRoom", "delete")
    /\ rooms' = {r \in rooms : r.id # tasks[t].loc.id}
    /\ tasks' = Goto(t, "find", tasks[t].loc)
    /\ UNCHANGED <<messages, nextId, sock, nIn, trace>>

DeleteRoomFind(t) ==
    /\ At(t, "deleteRoom", "find")
    /\ tasks' = Goto(t, "emit", RoomFindSorted)
    /\ UNCHANGED <<db, sock, nIn, trace>>

DeleteRoomEmit(t) ==
    /\ At(t, "deleteRoom", "emit")
    /\ trace' = trace \o <<EvOut(t, tasks[t].conn, "roomList", tasks[t].loc, RoomListTargets(tasks[t].conn)),
                           EvEnd(t, tasks[t].conn, "deleteRoom")>>
    /\ tasks' = Without(tasks, t)
    /\ UNCHANGED <<db, sock, nIn>>

\* ----------------------------------------- socket.on('joinRoom') (159-164)

\* socket.leaveAll(); socket.join(room); then Message.find is awaited.
JoinRoom(c, room) ==
    /\ CanSend(c)
    /\ joined' = LeaveAllThenJoin(c, room)
    /\ tasks' = Start(NewTask, Task(c, "joinRoom", "find", room, Null))
    /\ trace' = Append(trace, EvIn(NewTask, c, "joinRoom", room))
    /\ nIn' = nIn + 1
    /\ UNCHANGED <<db, status, user, registered, limit>>

\* await Message.find({ room }).sort('time')
JoinRoomFind(t) ==
    /\ At(t, "joinRoom", "find")
    /\ tasks' = Goto(t, "emit", MessageFindByRoom(tasks[t].arg))
    /\ UNCHANGED <<db, sock, nIn, trace>>

\* socket.emit('history', history)
JoinRoomEmit(t) ==
    /\ At(t, "joinRoom", "emit")
    /\ trace' = trace \o <<EvOut(t, tasks[t].conn, "history", tasks[t].loc, Self(tasks[t].conn)),
                           EvEnd(t, tasks[t].conn, "joinRoom")>>
    /\ tasks' = Without(tasks, t)
    /\ UNCHANGED <<db, sock, nIn>>

\* -------------------------------------- socket.on('chatMessage') (166-175)

\* A chatMessage payload { room, text }, either field possibly undefined, and
\* the payload that was not sent at all (undefined).
Payload(room, text) == [given |-> TRUE, room |-> room, text |-> text]
NoPayload == [given |-> FALSE, room |-> Undef, text |-> Undef]

\* Destructuring undefined throws; !room returns; text.trim() throws on an
\* undefined text; a blank text returns.  Otherwise Message.create is awaited.
ChatMessage(c, p) ==
    /\ CanSend(c)
    /\ LET t == NewTask
           in == EvIn(t, c, "chatMessage", p)
       IN  IF ~p.given
           THEN /\ trace' = trace \o <<in, EvThrow(t, c, "chatMessage", "TypeError")>>
                /\ UNCHANGED <<tasks, messages, nextId>>
           ELSE IF ~Truthy(p.room)
           THEN /\ trace' = trace \o <<in, EvEnd(t, c, "chatMessage")>>
                /\ UNCHANGED <<tasks, messages, nextId>>
           ELSE IF p.text = Undef
           THEN /\ trace' = trace \o <<in, EvThrow(t, c, "chatMessage", "TypeError")>>
                /\ UNCHANGED <<tasks, messages, nextId>>
           ELSE IF ~Truthy(Trim(p.text))
           THEN /\ trace' = trace \o <<in, EvEnd(t, c, "chatMessage")>>
                /\ UNCHANGED <<tasks, messages, nextId>>
           ELSE LET m == [id |-> nextId, room |-> p.room, user |-> Username(c),
                          avatar |-> user[c].avatar, text |-> p.text, seenBy |-> <<>>]
                IN  /\ messages' = With(messages, nextId, m)
                    /\ nextId' = nextId + 1
                    /\ tasks' = Start(t, Task(c, "chatMessage", "emit", p, m))
                    /\ trace' = Append(trace, in)
    /\ nIn' = nIn + 1
    /\ UNCHANGED <<rooms, sock>>

\* io.to(room).emit('message', m)
ChatMessageEmit(t) ==
    /\ At(t, "chatMessage", "emit")
    /\ trace' = trace \o <<EvOut(t, tasks[t].conn, "message", tasks[t].loc, InRoom(tasks[t].arg.room)),
                           EvEnd(t, tasks[t].conn, "chatMessage")>>
    /\ tasks' = Without(tasks, t)
    /\ UNCHANGED <<db, sock, nIn>>

\* ------------------------------------ socket.on('deleteMessage') (178-184)

\* A slip: any user may delete.
MayDeleteMessage_Anyone(m, c) == m # Null

\* The author check of deleteMessage.
MayDeleteMessage(m, c) == m # Null /\ m.user = Username(c)

\* await Message.findById(messageId): a value that is no ObjectId makes the
\* query reject with a CastError.
DeleteMessage(c, id) ==
    /\ CanSend(c)
    /\ LET t == NewTask
           in == EvIn(t, c, "deleteMessage", id)
           m == MessageFindById(id)
       IN  IF id = BadId
           THEN /\ trace' = trace \o <<in, EvThrow(t, c, "deleteMessage", "CastError")>>
                /\ UNCHANGED tasks
           ELSE IF MayDeleteMessage(m, c)
           THEN /\ tasks' = Start(t, Task(c, "deleteMessage", "delete", id, m))
                /\ trace' = Append(trace, in)
           ELSE /\ trace' = trace \o <<in, EvEnd(t, c, "deleteMessage")>>
                /\ UNCHANGED tasks
    /\ nIn' = nIn + 1
    /\ UNCHANGED <<db, sock>>

\* await Message.deleteOne({ _id: messageId })
DeleteMessageDelete(t) ==
    /\ At(t, "deleteMessage", "delete")
    /\ messages' = Without(messages, tasks[t].arg)
    /\ tasks' = Goto(t, "emit", tasks[t].loc)
    /\ UNCHANGED <<rooms, nextId, sock, nIn, trace>>

\* io.to(m.room).emit('messageDeleted', messageId)
DeleteMessageEmit(t) ==
    /\ At(t, "deleteMessage", "emit")
    /\ trace' = trace \o <<EvOut(t, tasks[t].conn, "messageDeleted", tasks[t].arg,
                                 InRoom(tasks[t].loc.room)),
                           EvEnd(t, tasks[t].conn, "deleteMessage")>>
    /\ tasks' = Without(tasks, t)
    /\ UNCHANGED <<db, sock, nIn>>

\* ------------------------------- socket.on('typing' / 'stopTyping') (186-193)

\* Synchronous: if (!room) return; socket.to(room).emit('typing', username)
Typing(c, room) ==
    /\ CanSend(c)
    /\ LET t == NewTask
           in == EvIn(t, c, "typing", room)
       IN  IF ~Truthy(room)
           THEN trace' = trace \o <<in, EvEnd(t, c, "typing")>>
           ELSE trace' = trace \o <<in, EvOut(t, c, "typing", Username(c), InRoomExcept(room, c)),
                                    EvEnd(t, c, "typing")>>
    /\ nIn' = nIn + 1
    /\ UNCHANGED <<db, sock, tasks>>

\* Synchronous: if (!room) return; socket.to(room).emit('stopTyping')
StopTyping(c, room) ==
    /\ CanSend(c)
    /\ LET t == NewTask
           in == EvIn(t, c, "stopTyping", room)
       IN  IF ~Truthy(room)
           THEN trace' = trace \o <<in, EvEnd(t, c, "stopTyping")>>
           ELSE trace' = trace \o <<in, EvOut(t, c, "stopTyping", Null, InRoomExcept(room, c)),
                                    EvEnd(t, c, "stopTyping")>>
    /\ nIn' = nIn + 1
    /\ UNCHANGED <<db, sock, tasks>>

\* --------------------------------------------- socket.on('seen') (195-202)

\* A seen payload { messageId }, and the payload that was not sent at all.
SeenPayload(id) == [given |-> TRUE, messageId |-> id]
NoSeenPayload == [given |-> FALSE, messageId |-> BadId]

\* seenBy.includes(username)
Includes(seq, x) == \E i \in 1..Len(seq) : seq[i] = x

\* A slip: the viewer is recorded without looking at seenBy.
NotYetSeen_NoCheck(m, c) == m # Null

\* The check before a viewer is recorded.
NotYetSeen(m, c) == m # Null /\ ~Includes(m.seenBy, Username(c))

\* Destructuring undefined throws; Message.findById is awaited (CastError on
\* a value that is no ObjectId).  When the check passes, the username is
\* pushed onto the loaded document and m.save() is issued.
Seen(c, p) ==
    /\ CanSend(c)
    /\ LET t == NewTask
           in == EvIn(t, c, "seen", p)
       IN  IF ~p.given
           THEN /\ trace' = trace \o <<in, EvThrow(t, c, "seen", "TypeError")>>
                /\ UNCHANGED tasks
           ELSE IF p.messageId = BadId
           THEN /\ trace' = trace \o <<in, EvThrow(t, c, "seen", "CastError")>>
                /\ UNCHANGED tasks
           ELSE LET m == MessageFindById(p.messageId)
                IN  IF NotYetSeen(m, c)
                    THEN /\ tasks' = Start(t, Task(c, "seen", "save", p.messageId,
                                            [m EXCEPT !.seenBy = Append(@, Username(c))]))
                         /\ trace' = Append(trace, in)
                    ELSE /\ trace' = trace \o <<in, EvEnd(t, c, "seen")>>
                         /\ UNCHANGED tasks
    /\ nIn' = nIn + 1
    /\ UNCHANGED <<db, sock>>

\* await m.save(): the push is sent as $push of the new element onto the
\* stored array; a document deleted meanwhile makes save() reject with
\* DocumentNotFoundError.
SeenSave(t) ==
    /\ At(t, "seen", "save")
    /\ LET id == tasks[t].arg
           c == tasks[t].conn
       IN  IF id \in DOMAIN messages
           THEN /\ messages' = [messages EXCEPT ![id].seenBy = Append(@, Username(c))]
                /\ tasks' = Goto(t, "emit", tasks[t].loc)
                /\ UNCHANGED trace
           ELSE /\ trace' = Append(trace, EvThrow(t, c, "seen", "DocumentNotFoundError"))
                /\ tasks' = Without(tasks, t)
                /\ UNCHANGED messages
    /\ UNCHANGED <<rooms, nextId, sock, nIn>>

\* io.to(m.room).emit('seenUpdate', { id: messageId, seenBy: m.seenBy }) with
\* the seenBy of the document this handler loaded and pushed onto.
SeenEmit(t) ==
    /\ At(t, "seen", "emit")
    /\ LET m == tasks[t].loc
       IN  trace' = trace \o <<EvOut(t, tasks[t].conn, "seenUpdate",
                                     [id |-> tasks[t].arg, seenBy |-> m.seenBy], InRoom(m.room)),
                               EvEnd(t, tasks[t].conn, "seen")>>
    /\ tasks' = Without(tasks, t)
    /\ UNCHANGED <<db, sock, nIn>>

\* ------------------------------------------------------- the specifications

\* What a previous run of the server may have left in the database.
PersistedRoom    == [id |-> 1, name |-> Str_x, createdBy |-> "alice"]
PersistedMessage == [id |-> 2, room |-> Str_x, user |-> "alice", avatar |-> "a.png",
                     text |-> Str_hi, seenBy |-> <<>>]

NoMessages  == <<>>
OneMessage  == [i \in {2} |-> PersistedMessage]

InitDb(rs, ms) ==
    /\ rooms \in rs
    /\ messages \in ms
    /\ nextId = 3

\* server.listen: no socket is connected, no handler runs; the collections
\* hold what was persisted before.
InitCold(lim, rs, ms) ==
    /\ InitDb(rs, ms)
    /\ status = [c \in Conns |-> "idle"]
    /\ user = [c \in Conns |-> Null]
    /\ registered = [c \in Conns |-> FALSE]
    /\ joined = [c \in Conns |-> {}]
    /\ tasks = <<>>
    /\ nIn = 0
    /\ limit = lim
    /\ trace = <<>>

\* What io.on('connection') leaves in the trace for an authenticated socket.
ConnectionHistory(c, t) ==
    <<EvIn(t, c, "connection", Null),
      EvOut(t, c, "roomList", SortByName(rooms), {c}),
      EvEnd(t, c, "connection")>>

\* The state the server is in after c1 and then c2 have connected, one after
\* the other, and nothing else has happened: both sockets are connected,
\* carry their user and their handlers, and are in the room of their own id
\* only.
OpenConns == {"c1", "c2"}
InitOpen(lim, rs, ms) ==
    /\ InitDb(rs, ms)
    /\ status = [c \in Conns |-> IF c \in OpenConns THEN "connected" ELSE "idle"]
    /\ user = [c \in Conns |-> IF c \in OpenConns THEN UserDoc(SessionUid(c)) ELSE Null]
    /\ registered = [c \in Conns |-> c \in OpenConns]
    /\ joined = [c \in Conns |-> IF c \in OpenConns THEN {SocketId(c)} ELSE {}]
    /\ tasks = <<>>
    /\ nIn = 0
    /\ limit = lim
    /\ trace = ConnectionHistory("c1", 1) \o ConnectionHistory("c2", 4)

\* The same with alice's second connection c4 opened after the two.
OpenConnsTwice == {"c1", "c2", "c4"}
InitOpenTwice(lim, rs, ms) ==
    /\ InitDb(rs, ms)
    /\ status = [c \in Conns |-> IF c \in OpenConnsTwice THEN "connected" ELSE "idle"]
    /\ user = [c \in Conns |-> IF c \in OpenConnsTwice THEN UserDoc(SessionUid(c)) ELSE Null]
    /\ registered = [c \in Conns |-> c \in OpenConnsTwice]
    /\ joined = [c \in Conns |-> IF c \in OpenConnsTwice THEN {SocketId(c)} ELSE {}]
    /\ tasks = <<>>
    /\ nIn = 0
    /\ limit = lim
    /\ trace = ConnectionHistory("c1", 1) \o ConnectionHistory("c2", 4)
                                          \o ConnectionHistory("c4", 7)

\* What a completed joinRoom leaves in the trace.
JoinHistory(c, room, t) ==
    <<EvIn(t, c, "joinRoom", room),
      EvOut(t, c, "history", MessageFindByRoom(room), {c}),
      EvEnd(t, c, "joinRoom")>>

\* The state after c1 and c2 have connected and then joined room x, one
\* after the other, and been sent its history.
InitJoined(lim, rs, ms) ==
    /\ InitDb(rs, ms)
    /\ status = [c \in Conns |-> IF c \in OpenConns THEN "connected" ELSE "idle"]
    /\ user = [c \in Conns |-> IF c \in OpenConns THEN UserDoc(SessionUid(c)) ELSE Null]
    /\ registered = [c \in Conns |-> c \in OpenConns]
    /\ joined = [c \in Conns |-> IF c \in OpenConns THEN {Str_x} ELSE {}]
    /\ tasks = <<>>
    /\ nIn = 0
    /\ limit = lim
    /\ trace = ConnectionHistory("c1", 1) \o ConnectionHistory("c2", 4)
                                          \o JoinHistory("c1", Str_x, 7)
                                          \o JoinHistory("c2", Str_x, 10)

\* The steps handlers take after their first await.
ConnectionSteps ==
    \/ \E t \in DOMAIN tasks : ConnectionFindRooms(t)
    \/ \E t \in DOMAIN tasks : ConnectionEmit(t)

IndexSteps ==
    \/ \E t \in DOMAIN tasks : IndexCreate(t)
    \/ \E t \in DOMAIN tasks : IndexRender(t)

NewRoomSteps ==
    \/ \E t \in DOMAIN tasks : NewRoomCreate(t)
    \/ \E t \in DOMAIN tasks : NewRoomFind(t)
    \/ \E t \in DOMAIN tasks : NewRoomEmit(t)

DeleteRoomSteps ==
    \/ \E t \in DOMAIN tasks : DeleteRoomDelete(t)
    \/ \E t \in DOMAIN tasks : DeleteRoomFind(t)
    \/ \E t \in DOMAIN tasks : DeleteRoomEmit(t)

JoinRoomSteps ==
    \/ \E t \in DOMAIN tasks : JoinRoomFind(t)
    \/ \E t \in DOMAIN tasks : JoinRoomEmit(t)

DeleteMessageSteps ==
    \/ \E t \in DOMAIN tasks : DeleteMessageDelete(t)
    \/ \E t \in DOMAIN tasks : DeleteMessageEmit(t)

SeenSteps ==
    \/ \E t \in DOMAIN tasks : SeenSave(t)
    \/ \E t \in DOMAIN tasks : SeenEmit(t)

\* The ids a client can name: those of stored messages, a string that is no
\* ObjectId, and an ObjectId of no document.
KnownIds   == DOMAIN messages
MessageIds == KnownIds \cup {BadId, UnknownId}

\* ---- Spec: every handler, well-formed and malformed inputs, from two open
\* ---- connections.
RoomNames    == {Str_x, Str_sp_x, Str_blank, Undef}
ChatPayloads == {NoPayload, Payload(Str_x, Str_hi), Payload(Str_x, Str_blank),
                 Payload(Str_x, Undef), Payload(Str_empty, Str_hi)}
SeenPayloads == {NoSeenPayload} \cup {SeenPayload(i) : i \in MessageIds}

Init == InitOpen(MaxEvents, {{}, {PersistedRoom}}, {NoMessages, OneMessage})

Next ==
    \/ \E c \in Conns : Disconnect(c)
    \/ \E u \in UserIds : Index(u)
    \/ IndexSteps
    \/ \E c \in Conns, name \in RoomNames : NewRoom(c, name)
    \/ NewRoomSteps
    \/ \E c \in Conns, name \in {Str_x, Str_y} : DeleteRoom(c, name)
    \/ DeleteRoomSteps
    \/ \E c \in Conns, room \in {Str_x} : JoinRoom(c, room)
    \/ JoinRoomSteps
    \/ \E c \in Conns, p \in ChatPayloads : ChatMessage(c, p)
    \/ \E t \in DOMAIN tasks : ChatMessageEmit(t)
    \/ \E c \in Conns, id \in MessageIds : DeleteMessage(c, id)
    \/ DeleteMessageSteps
    \/ \E c \in Conns, room \in {Str_x, Str_empty, Undef} : Typing(c, room)
    \/ \E c \in Conns, room \in {Str_x, Str_empty, Undef} : StopTyping(c, room)
    \/ \E c \in Conns, p \in SeenPayloads : Seen(c, p)
    \/ SeenSteps

Spec == Init /\ [][Next]_vars

\* ---- SpecConnect: connections come and go, from server start, while rooms
\* ---- are created.
InitConnect == InitCold(MaxFocus, {{}, {PersistedRoom}}, {NoMessages})

NextConnect ==
    \/ \E c \in Conns : Connect(c)
    \/ ConnectionSteps
    \/ \E c \in Conns : Disconnect(c)
    \/ \E c \in Conns, name \in {Str_x, Str_y} : NewRoom(c, name)
    \/ NewRoomSteps

SpecConnect == InitConnect /\ [][NextConnect]_vars

\* ---- SpecDirectory: the room directory (GET /, newRoom, deleteRoom).
InitDirectory == InitOpen(MaxEvents, {{}, {PersistedRoom}}, {NoMessages})

NextDirectory ==
    \/ \E u \in UserIds : Index(u)
    \/ IndexSteps
    \/ \E c \in Conns, name \in {Str_x, Str_sp_x, Str_blank} : NewRoom(c, name)
    \/ NewRoomSteps
    \/ \E c \in Conns, name \in {Str_x} : DeleteRoom(c, name)
    \/ DeleteRoomSteps

SpecDirectory == InitDirectory /\ [][NextDirectory]_vars

\* ---- SpecMembership: room membership and the typing indicators.
InitMembership == InitOpen(MaxFocus, {{}}, {OneMessage})

NextMembership ==
    \/ \E c \in Conns, room \in {Str_x, Str_y} : JoinRoom(c, room)
    \/ JoinRoomSteps
    \/ \E c \in Conns, room \in {Str_x, Str_empty} : Typing(c, room)
    \/ \E c \in Conns, room \in {Str_x, Str_empty} : StopTyping(c, room)
    \/ \E c \in Conns : Disconnect(c)

SpecMembership == InitMembership /\ [][NextMembership]_vars

\* ---- SpecMessages: the message log (chatMessage, deleteMessage, seen) of
\* ---- one room and its members.
InitMessages == InitOpen(MaxEvents, {{}, {PersistedRoom}}, {NoMessages, OneMessage})

NextMessages ==
    \/ \E c \in Conns, room \in {Str_x} : JoinRoom(c, room)
    \/ JoinRoomSteps
    \/ \E c \in Conns, p \in {Payload(Str_x, Str_hi)} : ChatMessage(c, p)
    \/ \E t \in DOMAIN tasks : ChatMessageEmit(t)
    \/ \E c \in Conns, id \in KnownIds : DeleteMessage(c, id)
    \/ DeleteMessageSteps
    \/ \E c \in Conns, id \in KnownIds : Seen(c, SeenPayload(id))
    \/ SeenSteps

SpecMessages == InitMessages /\ [][NextMessages]_vars

\* ---- SpecOwner: rooms are created and deleted by their creator, through
\* ---- either of her connections, and by somebody else, while connections
\* ---- go away.
InitOwner == InitOpenTwice(MaxEvents, {{}, {PersistedRoom}}, {NoMessages})

NextOwner ==
    \/ \E c \in Conns, name \in {Str_x} : NewRoom(c, name)
    \/ NewRoomSteps
    \/ \E c \in Conns, name \in {Str_x, Str_y} : DeleteRoom(c, name)
    \/ DeleteRoomSteps
    \/ \E c \in Conns : Disconnect(c)

SpecOwner == InitOwner /\ [][NextOwner]_vars

\* ---- SpecBroadcast: the room broadcasts (message, messageDeleted,
\* ---- seenUpdate) while connections change rooms and go away.
InitBroadcast == InitJoined(MaxEvents, {{}, {PersistedRoom}}, {OneMessage})

NextBroadcast ==
    \/ \E c \in Conns, room \in {Str_x, Str_y} : JoinRoom(c, room)
    \/ JoinRoomSteps
    \/ \E c \in Conns, p \in {Payload(Str_x, Str_hi), Payload(Str_x, Str_blank)} : ChatMessage(c, p)
    \/ \E t \in DOMAIN tasks : ChatMessageEmit(t)
    \/ \E c \in Conns, id \in KnownIds : DeleteMessage(c, id)
    \/ DeleteMessageSteps
    \/ \E c \in Conns, id \in KnownIds : Seen(c, SeenPayload(id))
    \/ SeenSteps
    \/ \E c \in Conns : Disconnect(c)

SpecBroadcast == InitBroadcast /\ [][NextBroadcast]_vars

\* ---- SpecScenario: a fresh database; alice (c1) creates the room
\* ---- "general"; then bob (c2) joins it; once bob has his history alice
\* ---- sends "hi" to the room; bob marks the message he is shown as seen.
\* ---- Alice may join the room herself at any time, or never.  Each input
\* ---- comes at most once.
ScenarioInputs == {<<"c1", "newRoom">>, <<"c1", "joinRoom">>, <<"c1", "chatMessage">>,
                   <<"c2", "joinRoom">>, <<"c2", "seen">>}

Once(c, ev) ==
    /\ <<c, ev>> \in ScenarioInputs
    /\ ~\E i \in DOMAIN trace : trace[i].k = "in" /\ trace[i].conn = c /\ trace[i].ev = ev

\* Connection c has been sent event ev.
Got(c, ev) == \E i \in DOMAIN trace : trace[i].k = "out" /\ trace[i].ev = ev /\ c \in trace[i].to

\* Connection c has been sent the message with this id.
GotMessage(c, id) ==
    \E i \in DOMAIN trace : /\ trace[i].k = "out" /\ trace[i].ev = "message"
                            /\ c \in trace[i].to /\ trace[i].arg.id = id

InitScenario == InitOpen(Cardinality(ScenarioInputs), {{}}, {NoMessages})

NextScenario ==
    \/ Once("c1", "newRoom") /\ NewRoom("c1", Str_general)
    \/ NewRoomSteps
    \/ Once("c1", "joinRoom") /\ JoinRoom("c1", Str_general)
    \/ Once("c2", "joinRoom") /\ RoomExists(Str_general) /\ JoinRoom("c2", Str_general)
    \/ JoinRoomSteps
    \/ Once("c1", "chatMessage") /\ Got("c2", "history")
                                 /\ ChatMessage("c1", Payload(Str_general, Str_hi))
    \/ \E t \in DOMAIN tasks : ChatMessageEmit(t)
    \/ \E id \in KnownIds : Once("c2", "seen") /\ GotMessage("c2", id)
                            /\ Seen("c2", SeenPayload(id))
    \/ SeenSteps

SpecScenario == InitScenario /\ [][NextScenario]_vars

\* ------------------------------------------------- reading the trace

Idx == DOMAIN trace

IsIn(i, ev)  == trace[i].k = "in" /\ trace[i].ev = ev
IsOut(i, ev) == trace[i].k = "out" /\ trace[i].ev = ev

\* The username of the session behind a connection.
SessionName(c) == UserDoc(SessionUid(c)).username

\* The largest element of a non-empty set of numbers.
Last(S) == CHOOSE i \in S : \A j \in S : j <= i

\* The room connection c is in just before trace entry i, read off the
\* inputs alone: the room of its latest joinRoom, unless it has disconnected
\* since (or never joined), and then none.
JoinsBefore(c, i) ==
    {j \in Idx : j < i /\ trace[j].conn = c /\ (IsIn(j, "joinRoom") \/ IsIn(j, "disconnect"))}
IsMemberBefore(c, room, i) ==
    LET js == JoinsBefore(c, i)
    IN  /\ js # {}
        /\ LET e == trace[Last(js)]
           IN  e.ev = "joinRoom" /\ e.arg = room

\* The invocation started at trace entry i has run to its end or rejected.
Finished(i) == i \notin DOMAIN tasks

\* ------------------------------------------------------------ the claims

\* C1: a connection is in at most one room at any time (the room of its own
\* id until its first joinRoom); once it has sent joinRoom and while it stays
\* connected, it is in exactly the room of the latest joinRoom, so
\* joinRoom(A) then joinRoom(B) leaves it out of A.
C1_AtMostOneRoom ==
    \A c \in Conns :
        /\ Cardinality(joined[c]) <= 1
        /\ \A room \in {Str_x, Str_y} :
              (Connected(c) /\ room \in joined[c]) <=> IsMemberBefore(c, room, Len(trace) + 1)

\* C1 witness: a connection joined one room and then another.
C1_Witness ==
    \E c \in Conns : \E i, j \in Idx :
        /\ i < j /\ IsIn(i, "joinRoom") /\ IsIn(j, "joinRoom")
        /\ trace[i].conn = c /\ trace[j].conn = c
        /\ trace[i].arg = Str_x /\ trace[j].arg = Str_y
        /\ joined[c] = {Str_y}

\* C5: a typing or stopTyping event with a non-empty room is written to
\* exactly the other connections that are in the room at that moment, never
\* to its sender, and typing carries the sender's username.
C5_TypingExcludesSender ==
    \A i \in Idx :
        (IsIn(i, "typing") \/ IsIn(i, "stopTyping")) /\ Truthy(trace[i].arg) =>
            /\ i + 1 \in Idx
            /\ IsOut(i + 1, trace[i].ev)
            /\ trace[i].conn \notin trace[i + 1].to
            /\ trace[i + 1].to =
                  {d \in Conns \ {trace[i].conn} : IsMemberBefore(d, trace[i].arg, i)}
            /\ IsIn(i, "typing") => trace[i + 1].arg = SessionName(trace[i].conn)

\* C5 witness: the sender is itself in the room, and another member got the
\* typing event.
C5_Witness ==
    \E i \in Idx :
        /\ IsOut(i, "typing")
        /\ IsMemberBefore(trace[i].conn, Str_x, i)
        /\ trace[i - 1].arg = Str_x
        /\ trace[i].to # {}

\* The latest roomList written to connection c (none: the empty set).
RoomListsOf(c) == {i \in Idx : IsOut(i, "roomList") /\ c \in trace[i].to}

\* C6: a connection whose session holds no user id is disconnected at once:
\* nothing is ever written to it, no handler is registered on it, the only
\* input of it the server takes is the connection itself, and it is in no
\* room.
C6_UnauthenticatedGetsNothing ==
    \A c \in Conns : SessionUid(c) = NoUid =>
        /\ ~Connected(c)
        /\ ~registered[c]
        /\ joined[c] = {}
        /\ \A i \in Idx :
              /\ trace[i].k = "out" => c \notin trace[i].to
              /\ trace[i].conn = c => trace[i].ev = "connection"

\* C6 witness: such a connection was turned away, and a room list was
\* broadcast to the others afterwards.
C6_Witness ==
    \E c \in Conns : \E i, j \in Idx :
        /\ SessionUid(c) = NoUid /\ status[c] = "closed"
        /\ IsIn(i, "connection") /\ trace[i].conn = c
        /\ i < j /\ IsOut(j, "roomList") /\ trace[j].conn # c /\ trace[j].to # {}

\* The latest room list connection c was sent.
LastRoomList(c) == trace[Last(RoomListsOf(c))].arg

RoomsNamed(name) == {r \in rooms : r.name = name}

\* Two newRoom inputs of the same usable name from different connections.
SameNewRoom(i, j) ==
    /\ i < j /\ IsIn(i, "newRoom") /\ IsIn(j, "newRoom")
    /\ trace[i].arg = trace[j].arg /\ trace[i].conn # trace[j].conn
    /\ trace[i].arg # Undef /\ Truthy(Trim(trace[i].arg))

\* C2: no two stored rooms share a name; when two connections have both sent
\* newRoom of the same name and both handlers are through (however their
\* steps interleaved), and nobody asked to delete that room, exactly one room
\* of that name is stored and the latest room list of the one connection is
\* that of the other.
C2_OneRoomSameList ==
    /\ \A r, q \in rooms : r.name = q.name => r = q
    /\ \A i, j \in Idx :
          /\ SameNewRoom(i, j) /\ Finished(i) /\ Finished(j)
          /\ ~\E d \in Idx : IsIn(d, "deleteRoom") /\ trace[d].arg = trace[i].arg
          => /\ Cardinality(RoomsNamed(trace[i].arg)) = 1
             /\ LastRoomList(trace[i].conn) = LastRoomList(trace[j].conn)

\* C2 witness: both handlers saw no such room, one insert won, the other hit
\* the unique index, and the winner's list went out.
C2_Witness ==
    \E i, j \in Idx :
        /\ SameNewRoom(i, j) /\ Finished(i) /\ Finished(j)
        /\ \E e \in Idx : trace[e].k = "throw" /\ trace[e].task \in {i, j}
        /\ \E o \in Idx : IsOut(o, "roomList") /\ trace[o].task \in {i, j}
                          /\ trace[o].to = {trace[i].conn, trace[j].conn}
        /\ Cardinality(RoomsNamed(trace[i].arg)) = 1

\* C7 (as claimed): every GET / gets its page, and the page of a request
\* that found the directory empty shows the one lobby room; no request ends
\* in an error.
C7_EveryIndexRendersLobby ==
    \A i \in Idx : IsIn(i, "index") /\ Finished(i) =>
        \E o \in Idx : /\ IsOut(o, "render") /\ trace[o].task = i
                       /\ Len(trace[o].arg) >= 1

\* The seen inputs of one viewer for one message, and the trace entry at
\* which the invocation started at i was through.
SeenIns(id, name) ==
    {i \in Idx : /\ IsIn(i, "seen") /\ trace[i].arg.given
                 /\ trace[i].arg.messageId = id /\ SessionName(trace[i].conn) = name}
EndOf(i) == CHOOSE e \in Idx : trace[e].task = i /\ trace[e].k \in {"end", "throw"}

\* Each of the seen inputs in S was through before the next one came in.
OneAfterTheOther(S) ==
    \A i, j \in S : i < j => Finished(i) /\ EndOf(i) < j

\* How often x occurs in seq.
Count(seq, x) == Cardinality({k \in 1..Len(seq) : seq[k] = x})

\* The seenUpdate broadcasts the invocations in S made.
SeenUpdatesOf(S) == {o \in Idx : IsOut(o, "seenUpdate") /\ trace[o].task \in S}

\* C3: when a viewer's seen inputs for a stored message are handled one
\* after the other, each through before the next comes in, the message's
\* seenBy holds the viewer exactly once however many there were, and only
\* the first of them broadcast a seenUpdate.
C3_SeenIdempotent ==
    \A id \in DOMAIN messages : \A name \in {"alice", "bob"} :
        LET S == SeenIns(id, name)
        IN  (S # {} /\ OneAfterTheOther(S) /\ \A i \in S : Finished(i)) =>
                /\ Count(messages[id].seenBy, name) = 1
                /\ \A o \in SeenUpdatesOf(S) : \A i \in S : trace[o].task <= i
                /\ Cardinality(SeenUpdatesOf(S)) = 1

\* C3 witness: the same viewer marked the same message seen twice, the
\* second time after the first was through.
C3_Witness ==
    \E id \in DOMAIN messages : \E i, j \in SeenIns(id, "bob") :
        /\ i < j /\ Finished(i) /\ Finished(j) /\ EndOf(i) < j
        /\ messages[id].seenBy = <<"bob">>
        /\ Cardinality(SeenUpdatesOf({i, j})) = 1

\* The entries a step adds to the trace.
Added == {k \in DOMAIN trace' : k > Len(trace)}

\* C4: a step never removes a message unless it is the step of a
\* deleteMessage of that message sent by a connection of its author; a
\* messageDeleted is only ever emitted by such a handler; and a deleteMessage
\* from anybody else changes no message, starts nothing and emits nothing.
C4_OnlyAuthorDeletes ==
    [][ /\ \A id \in DOMAIN messages : id \notin DOMAIN messages' =>
              \E t \in DOMAIN tasks :
                  /\ tasks[t].kind = "deleteMessage" /\ tasks[t].arg = id
                  /\ SessionName(tasks[t].conn) = messages[id].user
        /\ \A k \in Added : trace'[k].k = "out" /\ trace'[k].ev = "messageDeleted" =>
              /\ trace'[k].task \in DOMAIN tasks
              /\ tasks[trace'[k].task].loc.id = trace'[k].arg
              /\ tasks[trace'[k].task].loc.user = SessionName(trace'[k].conn)
        /\ \A k \in Added :
              /\ trace'[k].k = "in" /\ trace'[k].ev = "deleteMessage"
              /\ trace'[k].arg \in DOMAIN messages
              /\ messages[trace'[k].arg].user # SessionName(trace'[k].conn)
              => /\ messages' = messages
                 /\ tasks' = tasks
                 /\ \A o \in Added : trace'[o].k # "out"
      ]_vars

\* C4 witness: somebody who is not the author asked to delete a message
\* while a connection was in its room; the message is still there.
C4_Witness ==
    \E i \in Idx :
        /\ IsIn(i, "deleteMessage") /\ trace[i].arg \in DOMAIN messages
        /\ messages[trace[i].arg].user # SessionName(trace[i].conn)
        /\ InRoom(messages[trace[i].arg].room) # {}
        /\ Finished(i)

\* C10 (as claimed): message events of a room are broadcast in the order in
\* which the messages were appended to the log (ObjectIds grow with each
\* append).
C10_BroadcastInLogOrder ==
    \A i, j \in Idx :
        /\ i < j /\ IsOut(i, "message") /\ IsOut(j, "message")
        /\ trace[i].arg.room = trace[j].arg.room
        => trace[i].arg.id < trace[j].arg.id

\* C9 (as claimed): no handler of a socket event ever rejects; an input it
\* cannot act on is dropped without an exception.
C9_NoHandlerRejects ==
    \A i \in Idx : ~(trace[i].k = "throw" /\ trace[i].conn \in Conns)

\* The scenario of C8, read off the trace: alice created "general" (n); bob
\* joined it and was sent an empty history (h); after that alice's
\* chatMessage came in (m) and was broadcast (o); then bob's seen of that
\* message came in (s) and its handler is through.
Created(n)      == IsIn(n, "newRoom") /\ trace[n].conn = "c1" /\ Finished(n)
EmptyHistory(h) == IsOut(h, "history") /\ trace[h].to = {"c2"} /\ trace[h].arg = <<>>
Sent(m)         == IsIn(m, "chatMessage") /\ trace[m].conn = "c1"
Broadcast(m, o) == IsOut(o, "message") /\ trace[o].task = m
SeenBy2(o, s)   == /\ IsIn(s, "seen") /\ trace[s].conn = "c2"
                   /\ trace[s].arg.messageId = trace[o].arg.id
                   /\ Finished(s)

\* What bob is to get of alice's message, and the seenUpdate of bob's seen.
BobGotMessage(o) ==
    /\ "c2" \in trace[o].to
    /\ trace[o].arg.text = Str_hi /\ trace[o].arg.user = "alice"
    /\ trace[o].arg.room = Str_general
SeenUpdateOf(s, u, id) ==
    /\ IsOut(u, "seenUpdate") /\ trace[u].task = s
    /\ trace[u].arg = [id |-> id, seenBy |-> <<"bob">>]

\* The scenario ran; `After(o, s)` is what is claimed of its outcome.
InScenario(After(_, _)) ==
    \A n \in Idx : Created(n) =>
    \A h \in Idx : (n < h /\ EmptyHistory(h)) =>
    \A m \in Idx : (h < m /\ Sent(m)) =>
    \A o \in Idx : (m < o /\ Broadcast(m, o)) =>
        /\ BobGotMessage(o)
        /\ \A s \in Idx : (o < s /\ SeenBy2(o, s)) => After(o, s)

AliceGetsIt(o, s) ==
    \E u \in Idx : SeenUpdateOf(s, u, trace[o].arg.id) /\ "c1" \in trace[u].to

MembersGetIt(o, s) ==
    \E u \in Idx :
        /\ SeenUpdateOf(s, u, trace[o].arg.id)
        /\ "c2" \in trace[u].to
        /\ "c1" \in trace[u].to <=> IsMemberBefore("c1", Str_general, u)

\* C8 (as claimed): in that scenario bob gets the message and alice gets the
\* seenUpdate with seenBy = [bob].
C8_AliceGetsSeenUpdate == InScenario(AliceGetsIt)

\* C8 (amended): in that scenario bob gets the message, and the seenUpdate
\* with seenBy = [bob] goes to bob, and to alice exactly when she has joined
\* "general" herself by then.
C8_MembersGetSeenUpdate == InScenario(MembersGetIt)

\* C8 witness: the scenario ran, alice had joined, and both got the
\* seenUpdate.
C8_Witness ==
    \E n \in Idx : Created(n) /\
    \E h \in Idx : n < h /\ EmptyHistory(h) /\
    \E m \in Idx : h < m /\ Sent(m) /\
    \E o \in Idx : m < o /\ Broadcast(m, o) /\ BobGotMessage(o) /\
    \E s \in Idx : o < s /\ SeenBy2(o, s) /\
    \E u \in Idx : SeenUpdateOf(s, u, trace[o].arg.id) /\ trace[u].to = {"c1", "c2"}

\* C11: a step removes a room only when it is the deleteOne of a deleteRoom
\* sent by a connection of the room's creator (whichever of her connections);
\* a deleteRoom from anybody else, or of a name no room has, changes no room,
\* starts nothing and emits nothing; and the roomList a deleteRoom handler
\* emits is the directory listing it read after its deletion (sorted by name,
\* without the deleted room) and goes to every connection that is connected
\* and has its handlers.
C11_OnlyCreatorDeletesRoom ==
    [][ /\ \A r \in rooms : r \notin rooms' =>
              \E t \in DOMAIN tasks :
                  /\ At(t, "deleteRoom", "delete") /\ tasks[t].loc = r
                  /\ tasks[t].arg = r.name
                  /\ SessionName(tasks[t].conn) = r.createdBy
                  /\ rooms' = rooms \ {r}
        /\ \A k \in Added :
              /\ trace'[k].k = "in" /\ trace'[k].ev = "deleteRoom"
              /\ \/ ~\E r \in rooms : r.name = trace'[k].arg
                 \/ \E r \in rooms : /\ r.name = trace'[k].arg
                                     /\ r.createdBy # SessionName(trace'[k].conn)
              => /\ rooms' = rooms
                 /\ tasks' = tasks
                 /\ \A o \in Added : trace'[o].k # "out"
        /\ \A k \in Added :
              /\ trace'[k].k = "out" /\ trace'[k].ev = "roomList"
              /\ trace[trace'[k].task].ev = "deleteRoom"
              => /\ {c \in Conns : Connected(c) /\ registered[c]} \subseteq trace'[k].to
                 /\ trace'[k].arg = tasks[trace'[k].task].loc
        /\ \A t \in DOMAIN tasks : At(t, "deleteRoom", "find") /\ tasks'[t] # tasks[t] =>
              LET list == tasks'[t].loc
              IN  /\ {list[n] : n \in 1..Len(list)} = rooms
                  /\ \A n \in 1..Len(list) :
                        /\ list[n].id # tasks[t].loc.id
                        /\ n > 1 => StrLess(list[n - 1].name, list[n].name)
      ]_vars

\* C11 witness: bob's deleteRoom of alice's room was turned down, and then
\* alice deleted it through her second connection; the list without it went
\* to all three connections.
C11_Witness ==
    \E i, j \in Idx :
        /\ IsIn(i, "deleteRoom") /\ trace[i].conn = "c2" /\ trace[i].arg = Str_x
        /\ Finished(i) /\ EndOf(i) = i + 1
        /\ i < j /\ IsIn(j, "deleteRoom") /\ trace[j].conn = "c4" /\ trace[j].arg = Str_x
        /\ Finished(j)
        /\ \E o \in Idx : /\ IsOut(o, "roomList") /\ trace[o].task = j
                          /\ trace[o].to = {"c1", "c2", "c4"} /\ trace[o].arg = <<>>
        /\ rooms = {}

\* C12 (as claimed): in every state a message's seenBy holds each username
\* at most once, and at most one seenUpdate has been broadcast for a message
\* and a viewer, also when two seen inputs of the viewer for the message were
\* in flight together.
C12_SeenOncePerViewer ==
    /\ \A id \in DOMAIN messages : \A name \in {"alice", "bob"} :
          Count(messages[id].seenBy, name) <= 1
    /\ \A o \in Idx : IsOut(o, "seenUpdate") =>
          \A q \in Idx :
              /\ IsOut(q, "seenUpdate") /\ trace[q].arg.id = trace[o].arg.id
              /\ SessionName(trace[q].conn) = SessionName(trace[o].conn)
              => q = o

\* The seenUpdate broadcasts of one message, and the set of usernames a
\* seenBy array holds.
SeenUpdatesFor(id) == {o \in Idx : IsOut(o, "seenUpdate") /\ trace[o].arg.id = id}
Viewers(seq) == {seq[n] : n \in 1..Len(seq)}

\* C13 (as claimed): once the seen handlers of a message are through, its
\* stored seenBy holds every viewer whose seen was recorded, and the seenBy
\* of each seenUpdate holds every username an earlier seenUpdate of the
\* message held.
C13_SeenUpdatesGrow ==
    \A id \in DOMAIN messages :
        /\ \A i \in Idx :
              /\ IsIn(i, "seen") /\ trace[i].arg.given /\ trace[i].arg.messageId = id
              /\ Finished(i)
              => SessionName(trace[i].conn) \in Viewers(messages[id].seenBy)
        /\ \A o \in SeenUpdatesFor(id) : \A q \in SeenUpdatesFor(id) :
              o < q => Viewers(trace[o].arg.seenBy) \subseteq Viewers(trace[q].arg.seenBy)

\* The events that are broadcast to a room.
RoomEvents == {"message", "messageDeleted", "seenUpdate"}

\* C14: a message, messageDeleted or seenUpdate is written to exactly the
\* connections that are in the room of the message when it is emitted: those
\* whose latest joinRoom, read off the inputs, named that room and that have
\* not disconnected since.  The emit ends the handler without an error.
C14_BroadcastToCurrentMembers ==
    [][ \A k \in Added : trace'[k].k = "out" /\ trace'[k].ev \in RoomEvents =>
            LET t == trace'[k].task
            IN  /\ t \in DOMAIN tasks
                /\ trace'[k].to =
                      {c \in Conns : IsMemberBefore(c, tasks[t].loc.room, Len(trace) + 1)}
                /\ tasks[t].loc.id \in DOMAIN messages =>
                      messages[tasks[t].loc.id].room = tasks[t].loc.room
                /\ k + 1 \in Added
                /\ trace'[k + 1] = EvEnd(t, trace'[k].conn, trace[t].ev)
      ]_vars

\* C14 witness: a message was broadcast to c1 alone although c2 was in the
\* room too when the chatMessage came in: c2 has joined another room or
\* disconnected in between.
C14_Witness ==
    \E o \in Idx :
        /\ IsOut(o, "message") /\ trace[o].to = {"c1"}
        /\ IsMemberBefore("c2", trace[o].arg.room, trace[o].task)
        /\ ~IsMemberBefore("c2", trace[o].arg.room, o)

\* C15 (as claimed): once a connection has disconnected it is in no room
\* and no handler of it takes another step: nothing is emitted, completed or
\* rejected on its behalf after the disconnect.
C15_NothingAfterDisconnect ==
    \A i \in Idx : IsIn(i, "disconnect") =>
        /\ joined[trace[i].conn] = {}
        /\ \A j \in Idx : j > i => trace[j].conn # trace[i].conn

\* A text of white space only (or of nothing).
Blank(text) == \A n \in 1..Len(text) : IsWhite(text[n])

\* The messages a step adds to the log.
Appended == DOMAIN messages' \ DOMAIN messages

\* C16: a chatMessage with a non-empty room and a text that is not blank
\* appends one message, of that room and text and with the sender's username
\* as its author, and nothing else is ever appended; its handler then
\* broadcasts that message once, to the connections in the room at that
\* moment, whether a Room of that name is stored or not and whether the
\* sender is in the room or not.  A chatMessage with a blank text appends
\* nothing, starts nothing and emits nothing.
C16_ChatMessageAppendsAndBroadcasts ==
    [][ /\ \A k \in Added : trace'[k].k = "in" /\ trace'[k].ev = "chatMessage" =>
              LET p == trace'[k].arg
              IN  IF Blank(p.text)
                  THEN /\ messages' = messages
                       /\ tasks' = tasks
                       /\ \A o \in Added : trace'[o].k # "out"
                  ELSE /\ Cardinality(Appended) = 1
                       /\ \A id \in DOMAIN messages : messages'[id] = messages[id]
                       /\ \A id \in Appended :
                             /\ messages'[id].room = p.room
                             /\ messages'[id].text = p.text
                             /\ messages'[id].user = SessionName(trace'[k].conn)
                             /\ At(k, "chatMessage", "emit")'
                             /\ tasks'[k].loc = messages'[id]
        /\ Appended # {} =>
              \E k \in Added : trace'[k].k = "in" /\ trace'[k].ev = "chatMessage"
        /\ \A t \in DOMAIN tasks : At(t, "chatMessage", "emit") /\ t \notin DOMAIN tasks' =>
              /\ Cardinality(Added) = 2
              /\ \E o \in Added :
                    /\ trace'[o] = EvOut(t, trace[t].conn, "message", tasks[t].loc,
                                         {c \in Conns : IsMemberBefore(c, tasks[t].loc.room,
                                                                        Len(trace) + 1)})
                    /\ trace'[o + 1] = EvEnd(t, trace[t].conn, "chatMessage")
        /\ \A o \in Added : trace'[o].k = "out" /\ trace'[o].ev = "message" =>
              At(trace'[o].task, "chatMessage", "emit")
      ]_vars

\* C16 witness: no Room named x is stored and c1 is not in room x (it has
\* joined y); its message to x went to c2, which is in x.
C16_Witness ==
    /\ rooms = {}
    /\ \E o \in Idx :
          /\ IsOut(o, "message") /\ trace[o].conn = "c1" /\ trace[o].to = {"c2"}
          /\ trace[o].arg.room = Str_x /\ trace[o].arg.user = "alice"
          /\ IsMemberBefore("c1", Str_y, o)

\* C17 (as claimed): a newRoom whose name is blank creates no room and
\* emits nothing; every stored room carries a trimmed name, and no two stored
\* rooms have names that are equal once trimmed.
C17_RoomNamesTrimmed ==
    /\ \A i \in Idx : IsIn(i, "newRoom") /\ Blank(trace[i].arg) =>
          /\ Finished(i) /\ EndOf(i) = i + 1
          /\ \A r \in rooms : r.name # trace[i].arg
    /\ \A r \in rooms : r.name = Trim(r.name)
    /\ \A r \in rooms : \A q \in rooms : Trim(r.name) = Trim(q.name) => r = q

\* Connection c has stayed in the room of its joinRoom at trace entry i:
\* whatever it sent since was a joinRoom of the same room.
StaysIn(i) ==
    \A j \in Idx :
        (j > i /\ trace[j].conn = trace[i].conn /\ trace[j].k = "in"
               /\ trace[j].ev \in {"joinRoom", "disconnect"})
        => trace[j].ev = "joinRoom" /\ trace[j].arg = trace[i].arg

\* The history sent in reply to the joinRoom at trace entry i, and the ids of
\* the messages in it.
HistoryOf(i) == CHOOSE h \in Idx : IsOut(h, "history") /\ trace[h].task = i
IdsIn(list) == {list[n].id : n \in 1..Len(list)}

\* The chatMessage handler that appended message id is through.
AppendDone(id) ==
    ~\E t \in DOMAIN tasks : tasks[t].kind = "chatMessage" /\ tasks[t].loc.id = id

\* C18: when a connection's joinRoom(R) has been answered and the connection
\* has stayed in R, every stored message of R whose chatMessage handler is
\* through is in the history sent in reply to that joinRoom or was written
\* to the connection as a message event, however the history query and the
\* chatMessage handlers interleaved.
C18_JoinMissesNoMessage ==
    \A i \in Idx : IsIn(i, "joinRoom") /\ Finished(i) /\ StaysIn(i) =>
        \A id \in DOMAIN messages :
            messages[id].room = trace[i].arg /\ AppendDone(id) =>
                \/ id \in IdsIn(trace[HistoryOf(i)].arg)
                \/ \E o \in Idx : /\ IsOut(o, "message") /\ trace[o].arg.id = id
                                  /\ trace[i].conn \in trace[o].to

\* C18 witness: a chatMessage came in while the history query of a joinRoom
\* was pending; the message is not in the history that was sent, and was
\* written to the joining connection as a message event.
C18_Witness ==
    \E i \in Idx : IsIn(i, "joinRoom") /\ Finished(i) /\ StaysIn(i) /\
    \E o \in Idx :
        /\ IsOut(o, "message") /\ trace[i].conn \in trace[o].to
        /\ i < trace[o].task /\ trace[o].task < HistoryOf(i)
        /\ trace[o].arg.id \in DOMAIN messages
        /\ trace[o].arg.id \notin IdsIn(trace[HistoryOf(i)].arg)

\* The joinRoom inputs of connection c, and the history events written to it.
JoinsOf(c)     == {i \in Idx : IsIn(i, "joinRoom") /\ trace[i].conn = c}
HistoriesOf(c) == {h \in Idx : IsOut(h, "history") /\ c \in trace[h].to}

\* C19 (as claimed): once the joinRoom handlers of a connection are through,
\* the last history it was sent is the reply to a joinRoom of the room of
\* its last joinRoom, the room it is in.
C19_LastHistoryOfLastJoin ==
    \A c \in Conns :
        (Connected(c) /\ JoinsOf(c) # {} /\ \A i \in JoinsOf(c) : Finished(i)) =>
            /\ trace[Last(JoinsOf(c))].arg \in joined[c]
            /\ trace[trace[Last(HistoriesOf(c))].task].arg = trace[Last(JoinsOf(c))].arg

\* C20 (as claimed): when no handler and no connection set-up is in flight,
\* the latest room list of every connection that is connected and set up is
\* the stored directory, sorted by name.
C20_RoomListsConverge ==
    tasks = <<>> =>
        \A c \in Conns : Connected(c) /\ registered[c] =>
            LastRoomList(c) = SortByName(rooms)

====
